---- MODULE Spec2Model ----
(***************************************************************************)
(* Model of halkit/csv_handler.py: the pipeline that loads booking-log     *)
(* files, validates every boundary between adjacent files (overlap         *)
(* content, gap size) and merges the record sets into one timeline.        *)
(*                                                                         *)
(* A record set (pandas DataFrame) is a sequence of rows.  A row keeps the *)
(* columns the code reads, "fahrtneu_id" (id) and "anfang" (hours, an      *)
(* integer), and src, the file the row was read from, which stands for the *)
(* row's remaining columns.  Loop counters keep the code's 0-based values; *)
(* element k of a Python list is element k + 1 of the sequence.            *)
(***************************************************************************)
EXTENDS Integers, Sequences, FiniteSets

\* ------------------------------------------------------------------ bounds
NumIds == 3
MaxTick == 3
TickHours == 3
MaxRows == 2
MaxFiles == 3
MaxTotalRows == 3

\* ------------------------------------------------------- program constants
\* assert_time_difference_in_bookings(..., threshold_hours=6)
threshold_hours == 6
\* pandas NaT: what Series.max() / Series.min() return for an empty column.
\* Every comparison with NaT is False and arithmetic on it gives NaT.
NaT == -1

Ids == 1..NumIds
Times == {TickHours * k : k \in 0..MaxTick}

\* ------------------------------------------------------------ file names
\* A file name is a string of decimal digits, as a sequence of digits.
RECURSIVE Digits(_)
Digits(k) == IF k < 10 THEN <<k>> ELSE Append(Digits(k \div 10), k % 10)

NameNumbers == (1..(MaxFiles - 1)) \cup {10}
FileNames == {Digits(k) : k \in NameNumbers}

\* Python's str.__lt__: lexicographic comparison.
RECURSIVE LexLess(_, _)
LexLess(a, b) ==
    IF a = <<>> THEN b # <<>>
    ELSE IF b = <<>> THEN FALSE
    ELSE IF Head(a) # Head(b) THEN Head(a) < Head(b)
    ELSE LexLess(Tail(a), Tail(b))

RECURSIVE Insert(_, _)
Insert(x, s) ==
    IF s = <<>> THEN <<x>>
    ELSE IF LexLess(x, Head(s)) THEN <<x>> \o s
    ELSE <<Head(s)>> \o Insert(x, Tail(s))

\* sorted(csv_files): a new list, ascending; the argument is left as it was.
RECURSIVE sorted(_)
sorted(s) == IF s = <<>> THEN <<>> ELSE Insert(s[Len(s)], sorted(SubSeq(s, 1, Len(s) - 1)))

\* ---------------------------------------------------------- column helpers
IdSet(df) == {df[k].id : k \in 1..Len(df)}

\* df["anfang"].max() and .min()
ColMax(df) ==
    IF df = <<>> THEN NaT
    ELSE CHOOSE t \in {df[k].anfang : k \in 1..Len(df)} :
             \A k \in 1..Len(df) : df[k].anfang <= t
ColMin(df) ==
    IF df = <<>> THEN NaT
    ELSE CHOOSE t \in {df[k].anfang : k \in 1..Len(df)} :
             \A k \in 1..Len(df) : df[k].anfang >= t

\* Timestamp comparisons: False as soon as one side is NaT.
Ge(a, b) == a # NaT /\ b # NaT /\ a >= b
Le(a, b) == a # NaT /\ b # NaT /\ a <= b
Gt(a, b) == a # NaT /\ b # NaT /\ a > b

\* first_date_next_df - last_date_current_df, a Timedelta or NaT
TimeDiff(first, last) == IF first = NaT \/ last = NaT THEN NaT ELSE first - last
\* Mutant of WithinThreshold: time_diff < timedelta(hours=threshold_hours)
WithinThresholdStrict(time_diff) == time_diff # NaT /\ time_diff < threshold_hours

\* time_diff <= timedelta(hours=threshold_hours)
WithinThreshold(time_diff) == time_diff # NaT /\ time_diff <= threshold_hours

\* ------------------------------------------------------------- validators
\* The fahrtneu_id column, in row order.
IdColumn(df) == [k \in 1..Len(df) |-> df[k].id]

\* Mutant of OverlapOutcome: the two fahrtneu_id columns are compared row by
\* row instead of as sets.
OverlapOutcomeOrdered(A, B) ==
    LET last_date_current_df == ColMax(A)
        first_date_next_df == ColMin(B)
    IN  IF Ge(last_date_current_df, first_date_next_df)
        THEN LET overlap_current_df ==
                     SelectSeq(A, LAMBDA r : Ge(r.anfang, first_date_next_df))
                 overlap_next_df ==
                     SelectSeq(B, LAMBDA r : Le(r.anfang, last_date_current_df))
             IN  IF Len(overlap_current_df) # Len(overlap_next_df)
                 THEN "OverlapLengthMismatch"
                 ELSE IF IdColumn(overlap_current_df) # IdColumn(overlap_next_df)
                 THEN "OverlapIdentityMismatch"
                 ELSE "pass"
        ELSE "skip"

\* Mutant of OverlapOutcome: a boundary overlaps only when last > first.
OverlapOutcomeStrict(A, B) ==
    LET last_date_current_df == ColMax(A)
        first_date_next_df == ColMin(B)
    IN  IF Gt(last_date_current_df, first_date_next_df)
        THEN LET overlap_current_df ==
                     SelectSeq(A, LAMBDA r : Ge(r.anfang, first_date_next_df))
                 overlap_next_df ==
                     SelectSeq(B, LAMBDA r : Le(r.anfang, last_date_current_df))
             IN  IF Len(overlap_current_df) # Len(overlap_next_df)
                 THEN "OverlapLengthMismatch"
                 ELSE IF IdSet(overlap_current_df) # IdSet(overlap_next_df)
                 THEN "OverlapIdentityMismatch"
                 ELSE "pass"
        ELSE "skip"

\* One iteration of verify_overlapping_bookings on the pair (A, B).
OverlapOutcome(A, B) ==
    LET last_date_current_df == ColMax(A)
        first_date_next_df == ColMin(B)
    IN  IF Ge(last_date_current_df, first_date_next_df)
        THEN LET overlap_current_df ==
                     SelectSeq(A, LAMBDA r : Ge(r.anfang, first_date_next_df))
                 overlap_next_df ==
                     SelectSeq(B, LAMBDA r : Le(r.anfang, last_date_current_df))
             IN  IF Len(overlap_current_df) # Len(overlap_next_df)
                 THEN "OverlapLengthMismatch"
                 ELSE IF IdSet(overlap_current_df) # IdSet(overlap_next_df)
                 THEN "OverlapIdentityMismatch"
                 ELSE "pass"
        ELSE "skip"

\* Mutant of GapOutcome: the gap branch is taken unless last > first.
GapOutcomeStrict(A, B) ==
    LET last_date_current_df == ColMax(A)
        first_date_next_df == ColMin(B)
    IN  IF ~ Gt(last_date_current_df, first_date_next_df)
        THEN IF WithinThreshold(TimeDiff(first_date_next_df, last_date_current_df))
             THEN "warning"
             ELSE "GapTooLarge"
        ELSE "skip"

\* One iteration of assert_time_difference_in_bookings on the pair (A, B).
GapOutcome(A, B) ==
    LET last_date_current_df == ColMax(A)
        first_date_next_df == ColMin(B)
    IN  IF ~ Ge(last_date_current_df, first_date_next_df)
        THEN IF WithinThreshold(TimeDiff(first_date_next_df, last_date_current_df))
             THEN "warning"
             ELSE "GapTooLarge"
        ELSE "skip"

\* Mutant of NewData: rows with anfang >= the running maximum are appended.
NewDataInclusive(master, df) == SelectSeq(df, LAMBDA r : Ge(r.anfang, ColMax(master)))

\* The rows of df the merge loop appends to master_df.
NewData(master, df) == SelectSeq(df, LAMBDA r : Gt(r.anfang, ColMax(master)))

\* ------------------------------------------------------------------ state
VARIABLES
    entry,            \* the function called: "combine" or "merge"
    fs,               \* file name -> rows of the file
    csv_files,        \* the csv_files argument
    argIsList,        \* isinstance(df_list_sorted, list) of merge's argument
    notDataFrame,     \* positions of df_list_sorted that hold no DataFrame
    df_list_sorted,
    csv_files_sorted,
    pc,
    i,
    master_df,
    result,
    err,
    warnings,
    log

vars == <<entry, fs, csv_files, argIsList, notDataFrame, df_list_sorted,
          csv_files_sorted, pc, i, master_df, result, err, warnings, log>>

NoError == [kind |-> "none", at |-> -1, files |-> <<>>]

\* ------------------------------------------------------------ input sets
\* The rows of a file, before the file's name is attached to them.
Bookings == [id : Ids, anfang : Times]

RECURSIVE SeqsUpTo(_, _)
SeqsUpTo(S, n) ==
    IF n = 0 THEN {<<>>}
    ELSE LET shorter == SeqsUpTo(S, n - 1)
         IN  shorter \cup {Append(s, x) : s \in {t \in shorter : Len(t) = n - 1}, x \in S}

\* The lists of n tables, each at most perFile rows, at most total rows in all.
RECURSIVE TableLists(_, _, _)
TableLists(n, perFile, total) ==
    IF n = 0 THEN {<<>>}
    ELSE UNION {{<<t>> \o rest : rest \in TableLists(n - 1, perFile, total - Len(t))} :
                t \in {x \in SeqsUpTo(Bookings, perFile) : Len(x) <= total}}

\* The file system: names[k] holds the rows of tables[k].
Files(names, tables) ==
    [f \in {names[k] : k \in 1..Len(names)} |->
        LET k == CHOOSE j \in 1..Len(names) : names[j] = f
        IN  [r \in 1..Len(tables[k]) |->
                [id |-> tables[k][r].id, anfang |-> tables[k][r].anfang, src |-> f]]]

SortedNames == sorted(CHOOSE s \in [1..Cardinality(FileNames) -> FileNames] :
                          \A a, b \in DOMAIN s : a # b => s[a] # s[b])

\* The sequences of distinct file names, at most MaxFiles long.
NameLists ==
    {s \in SeqsUpTo(FileNames, MaxFiles) : \A a, b \in DOMAIN s : a # b => s[a] # s[b]}

\* pd.read_csv over the names, in their order
LoadAll(files, names) == [k \in 1..Len(names) |-> files[names[k]]]

Start(e, files, names, isList, notDF, dfs) ==
    /\ entry = e
    /\ fs = files
    /\ csv_files = names
    /\ argIsList = isList
    /\ notDataFrame = notDF
    /\ df_list_sorted = dfs
    /\ csv_files_sorted = <<>>
    /\ pc = IF e = "combine" THEN "load" ELSE "merge_enter"
    /\ i = 0
    /\ master_df = <<>>
    /\ result = <<>>
    /\ err = NoError
    /\ warnings = <<>>
    /\ log = <<>>

\* combine_and_verify_booking_data(csv_files), names handed over in ascending
\* order: every file up to MaxRows rows; three or more files, MaxTotalRows rows
\* in total.
InitCombineSorted ==
    \E n \in 0..MaxFiles :
        \E tables \in TableLists(n, MaxRows, IF n >= 3 THEN MaxTotalRows ELSE n * MaxRows) :
            LET names == SubSeq(SortedNames, 1, n)
            IN  Start("combine", Files(names, tables), names, TRUE, {}, <<>>)

\* combine_and_verify_booking_data(csv_files), names in any order: every file
\* at most one row.
InitCombineAnyOrder ==
    \E names \in NameLists :
        \E tables \in TableLists(Len(names), 1, Len(names)) :
            Start("combine", Files(names, tables), names, TRUE, {}, <<>>)

\* merge_nonoverlapping_dfs(df_list_sorted) called directly: a list of record
\* sets (MaxTotalRows rows in total), a list with elements that are no
\* DataFrame, or no list at all.
InitMerge ==
    \/ \E n \in 0..MaxFiles :
        \E tables \in TableLists(n, MaxRows, MaxTotalRows) :
            LET names == SubSeq(SortedNames, 1, n)
                files == Files(names, tables)
            IN  Start("merge", files, names, TRUE, {}, LoadAll(files, names))
    \/ \E n \in 1..MaxFiles :
        \E tables \in TableLists(n, 1, 1) :
            \E notDF \in (SUBSET (1..n)) \ {{}} :
                LET names == SubSeq(SortedNames, 1, n)
                    files == Files(names, tables)
                IN  Start("merge", files, names, TRUE, notDF, LoadAll(files, names))
    \/ Start("merge", <<>>, <<>>, FALSE, {}, <<>>)

Init == InitCombineSorted \/ InitCombineAnyOrder \/ InitMerge

\* Exports of one booking table: a booking has one anfang wherever it appears
\* and appears at most once in a file.  Up to MaxFiles files of up to MaxRows
\* rows each, handed to either function.
DistinctIdSeqs == {s \in SeqsUpTo(Ids, MaxRows) : \A a, b \in DOMAIN s : a # b => s[a] # s[b]}

InitExports ==
    \E anfangOf \in [Ids -> Times] :
        \E n \in 1..MaxFiles :
            \E idLists \in [1..n -> DistinctIdSeqs] :
                LET names == SubSeq(SortedNames, 1, n)
                    tables == [k \in 1..n |->
                                  [r \in 1..Len(idLists[k]) |->
                                      [id |-> idLists[k][r], anfang |-> anfangOf[idLists[k][r]]]]]
                    files == Files(names, tables)
                IN  \/ Start("combine", files, names, TRUE, {}, <<>>)
                    \/ Start("merge", files, names, TRUE, {}, LoadAll(files, names))

\* ---------------------------------------------------------------- actions
Boundaries == 0..(Len(df_list_sorted) - 2)

Raise(kind, at, files) ==
    /\ pc' = "aborted"
    /\ err' = [kind |-> kind, at |-> at, files |-> files]

\* load_and_sort_fahrten_data: returns (df_list_sorted, csv_files)
Load ==
    /\ pc = "load"
    /\ df_list_sorted' = LoadAll(fs, sorted(csv_files))
    /\ csv_files_sorted' = csv_files
    /\ pc' = "verify"
    /\ i' = 0
    /\ UNCHANGED <<entry, fs, csv_files, argIsList, notDataFrame, master_df,
                   result, err, warnings, log>>

\* Mutant of VerifyStep: one loop runs both validators on boundary i.
VerifyStepInterleaved ==
    /\ pc = "verify"
    /\ i \in Boundaries
    /\ LET A == df_list_sorted[i + 1]
           B == df_list_sorted[i + 2]
           out == OverlapOutcome(A, B)
           gap == GapOutcome(A, B)
           named == <<csv_files_sorted[i + 1], csv_files_sorted[i + 2]>>
       IN  IF out \in {"OverlapLengthMismatch", "OverlapIdentityMismatch"}
           THEN /\ log' = Append(log, [by |-> "overlap", at |-> i, outcome |-> out])
                /\ Raise(out, i, <<i, i + 1>>)
                /\ i' = i
           ELSE /\ log' = log \o <<[by |-> "overlap", at |-> i, outcome |-> out],
                                   [by |-> "gap", at |-> i, outcome |-> gap]>>
                /\ IF gap = "GapTooLarge"
                   THEN Raise(gap, i, named) /\ i' = i
                   ELSE i' = i + 1 /\ UNCHANGED <<pc, err>>
    /\ UNCHANGED <<entry, fs, csv_files, argIsList, notDataFrame, df_list_sorted,
                   csv_files_sorted, master_df, result, warnings>>

\* verify_overlapping_bookings: loop body for boundary i
VerifyStep ==
    /\ pc = "verify"
    /\ i \in Boundaries
    /\ LET out == OverlapOutcome(df_list_sorted[i + 1], df_list_sorted[i + 2])
       IN  /\ log' = Append(log, [by |-> "overlap", at |-> i, outcome |-> out])
           /\ IF out \in {"OverlapLengthMismatch", "OverlapIdentityMismatch"}
              THEN /\ Raise(out, i, <<i, i + 1>>)
                   /\ i' = i
              ELSE /\ i' = i + 1
                   /\ UNCHANGED <<pc, err>>
    /\ UNCHANGED <<entry, fs, csv_files, argIsList, notDataFrame, df_list_sorted,
                   csv_files_sorted, master_df, result, warnings>>

\* Mutant of VerifyReturn: the merge is called right after the overlap
\* validator, the gap validator is left out.
VerifyReturnSkipsGap ==
    /\ pc = "verify"
    /\ i \notin Boundaries
    /\ pc' = "merge_enter"
    /\ i' = 0
    /\ UNCHANGED <<entry, fs, csv_files, argIsList, notDataFrame, df_list_sorted,
                   csv_files_sorted, master_df, result, err, warnings, log>>

\* verify_overlapping_bookings returns; the gap validator is called
VerifyReturn ==
    /\ pc = "verify"
    /\ i \notin Boundaries
    /\ pc' = "gap"
    /\ i' = 0
    /\ UNCHANGED <<entry, fs, csv_files, argIsList, notDataFrame, df_list_sorted,
                   csv_files_sorted, master_df, result, err, warnings, log>>

\* assert_time_difference_in_bookings: loop body for boundary i
GapStep ==
    /\ pc = "gap"
    /\ i \in Boundaries
    /\ LET A == df_list_sorted[i + 1]
           B == df_list_sorted[i + 2]
           out == GapOutcome(A, B)
           named == <<csv_files_sorted[i + 1], csv_files_sorted[i + 2]>>
       IN  /\ log' = Append(log, [by |-> "gap", at |-> i, outcome |-> out])
           /\ IF out = "GapTooLarge"
              THEN /\ Raise(out, i, named)
                   /\ i' = i
                   /\ UNCHANGED warnings
              ELSE /\ i' = i + 1
                   /\ warnings' =
                          IF out = "warning"
                          THEN Append(warnings, [at |-> i, files |-> named,
                                                 last |-> ColMax(A), first |-> ColMin(B)])
                          ELSE warnings
                   /\ UNCHANGED <<pc, err>>
    /\ UNCHANGED <<entry, fs, csv_files, argIsList, notDataFrame, df_list_sorted,
                   csv_files_sorted, master_df, result>>

\* assert_time_difference_in_bookings returns; merge_nonoverlapping_dfs is called
GapReturn ==
    /\ pc = "gap"
    /\ i \notin Boundaries
    /\ pc' = "merge_enter"
    /\ i' = 0
    /\ UNCHANGED <<entry, fs, csv_files, argIsList, notDataFrame, df_list_sorted,
                   csv_files_sorted, master_df, result, err, warnings, log>>

\* merge_nonoverlapping_dfs: the argument check and master_df = df_list_sorted[0]
MergeEnter ==
    /\ pc = "merge_enter"
    /\ IF ~ argIsList \/ notDataFrame # {}
       THEN /\ Raise("ValueError", -1, <<>>)
            /\ UNCHANGED <<i, master_df>>
       ELSE IF Len(df_list_sorted) = 0
       THEN /\ Raise("IndexError", -1, <<>>)
            /\ UNCHANGED <<i, master_df>>
       ELSE /\ master_df' = df_list_sorted[1]
            /\ i' = 1
            /\ pc' = "merge_loop"
            /\ UNCHANGED err
    /\ UNCHANGED <<entry, fs, csv_files, argIsList, notDataFrame, df_list_sorted,
                   csv_files_sorted, result, warnings, log>>

\* merge_nonoverlapping_dfs: loop body for record set i
MergeStep ==
    /\ pc = "merge_loop"
    /\ i < Len(df_list_sorted)
    /\ master_df' = master_df \o NewData(master_df, df_list_sorted[i + 1])
    /\ log' = Append(log, [by |-> "merge", at |-> i, outcome |-> "concat"])
    /\ i' = i + 1
    /\ UNCHANGED <<entry, fs, csv_files, argIsList, notDataFrame, df_list_sorted,
                   csv_files_sorted, pc, result, err, warnings>>

\* merge_nonoverlapping_dfs: return master_df
MergeReturn ==
    /\ pc = "merge_loop"
    /\ i >= Len(df_list_sorted)
    /\ result' = master_df
    /\ pc' = "done"
    /\ UNCHANGED <<entry, fs, csv_files, argIsList, notDataFrame, df_list_sorted,
                   csv_files_sorted, i, master_df, err, warnings, log>>

Next ==
    \/ Load
    \/ VerifyStep
    \/ VerifyReturn
    \/ GapStep
    \/ GapReturn
    \/ MergeEnter
    \/ MergeStep
    \/ MergeReturn

Spec == Init /\ [][Next]_vars

SpecExports == InitExports /\ [][Next]_vars

\* ============================================================ properties
\* The record sets the call works on, in list order.
InputSets == IF pc = "load" THEN LoadAll(fs, sorted(csv_files)) ELSE df_list_sorted
NumSets == Len(InputSets)
AllBoundaries == 0..(NumSets - 2)
SetA(k) == InputSets[k + 1]
SetB(k) == InputSets[k + 2]

\* Position in the list of the record set a row was read from.
PosOf(r) == CHOOSE k \in 1..NumSets : \E j \in 1..Len(InputSets[k]) : InputSets[k][j] = r

Occurrences(df, id) == Cardinality({j \in 1..Len(df) : df[j].id = id})

\* Both validation passes succeed on every adjacent boundary.
ValidationSucceeds ==
    \A k \in AllBoundaries :
        /\ OverlapOutcome(SetA(k), SetB(k)) \in {"pass", "skip"}
        /\ GapOutcome(SetA(k), SetB(k)) \in {"warning", "skip"}

\* fahrtneu_id is unique within each record set.
UniqueIds == \A k \in 1..NumSets : \A id \in Ids : Occurrences(InputSets[k], id) <= 1

\* A fahrtneu_id has the same anfang in every record set it appears in.
ConsistentAnfang ==
    \A k, l \in 1..NumSets :
        \A a \in 1..Len(InputSets[k]), b \in 1..Len(InputSets[l]) :
            InputSets[k][a].id = InputSets[l][b].id
                => InputSets[k][a].anfang = InputSets[l][b].anfang

LogAt(by, k) == {j \in 1..Len(log) : log[j].by = by /\ log[j].at = k}
LogBy(by) == {j \in 1..Len(log) : log[j].by = by}

\* ---------------------------------------------------------------------- C1
\* C1: whenever both validation passes succeed on every adjacent boundary,
\* every fahrtneu_id of every input record set occurs in the merged result
\* (sequences of three or more sets included).
C1_NoMissingBookings ==
    (entry = "combine" /\ pc = "done" /\ ValidationSucceeds)
        => \A k \in 1..NumSets : IdSet(InputSets[k]) \subseteq IdSet(result)

\* ---------------------------------------------------------------------- C2
\* What the merge guarantees for exports of one booking table, validated or
\* not: no fahrtneu_id twice, a kept row comes from the earliest set that
\* holds the booking, and a row of a later set is in the merged set only with
\* an anfang strictly greater than that of every row merged from an earlier
\* set.
MergedAtMostOnce ==
    /\ \A id \in Ids : Occurrences(master_df, id) <= 1
    /\ \A j \in 1..Len(master_df) :
           \A k \in 1..(PosOf(master_df[j]) - 1) :
               master_df[j].id \notin IdSet(InputSets[k])
    /\ \A a, b \in 1..Len(master_df) :
           PosOf(master_df[a]) < PosOf(master_df[b])
               => master_df[a].anfang < master_df[b].anfang

\* Every booking that is on both sides of an overlapping boundary is in the
\* result exactly once.
OverlapBookingsKeptOnce ==
    \A k \in AllBoundaries :
        Ge(ColMax(SetA(k)), ColMin(SetB(k)))
            => \A id \in IdSet(SetA(k)) \cap IdSet(SetB(k)) : Occurrences(result, id) = 1

\* C2 as claimed: with fahrtneu_id unique within each record set and one
\* anfang per fahrtneu_id, the result of merge_nonoverlapping_dfs holds every
\* fahrtneu_id at most once, and a booking on both sides of an overlapping
\* boundary is kept exactly once, as the row of the earlier set.  Stated for
\* sequences without an empty record set, where no maximum is NaT.
C2_KeptExactlyOnce ==
    (pc \in {"merge_loop", "done"} /\ UniqueIds /\ ConsistentAnfang
         /\ \A k \in 1..NumSets : InputSets[k] # <<>>)
        => /\ MergedAtMostOnce
           /\ pc = "done" => (result = master_df /\ OverlapBookingsKeptOnce)

\* C2, amended: with fahrtneu_id unique within each record set and one anfang
\* per fahrtneu_id, the result of merge_nonoverlapping_dfs holds every
\* fahrtneu_id at most once and a kept row is the one of the earliest set
\* holding the booking; a booking on both sides of an overlapping boundary is
\* kept exactly once when both validation passes succeed on every boundary
\* of the merged sequence (without that it may be kept not at all).
C2_NoDuplicateBookings ==
    (pc \in {"merge_loop", "done"} /\ UniqueIds /\ ConsistentAnfang)
        => /\ MergedAtMostOnce
           /\ pc = "done" => result = master_df
           /\ (pc = "done" /\ ValidationSucceeds) => OverlapBookingsKeptOnce

\* A finished merge of three exports in which the second and the third file
\* each repeat a booking of the file before and each add a new one.
C2_Witness ==
    /\ entry = "combine"
    /\ pc = "done"
    /\ UniqueIds /\ ConsistentAnfang
    /\ NumSets = 3
    /\ \A k \in AllBoundaries :
           /\ IdSet(SetA(k)) \cap IdSet(SetB(k)) # {}
           /\ IdSet(SetB(k)) \ IdSet(SetA(k)) # {}
    /\ Len(result) = 3

\* ---------------------------------------------------------------------- C3
\* C3: load_and_sort_fahrten_data returns the file identifiers in ascending
\* lexicographic order, record set k was loaded from returned identifier k,
\* and the gap validator names the files of record sets i and i+1 for
\* boundary i.
C3_FileSequencing ==
    (entry = "combine" /\ pc # "load")
        => /\ csv_files_sorted = sorted(csv_files)
           /\ Len(csv_files_sorted) = Len(df_list_sorted)
           /\ \A k \in 1..Len(df_list_sorted) : df_list_sorted[k] = fs[csv_files_sorted[k]]
           /\ \A j \in 1..Len(warnings) :
                  /\ df_list_sorted[warnings[j].at + 1] = fs[warnings[j].files[1]]
                  /\ df_list_sorted[warnings[j].at + 2] = fs[warnings[j].files[2]]
           /\ err.kind = "GapTooLarge"
                  => /\ df_list_sorted[err.at + 1] = fs[err.files[1]]
                     /\ df_list_sorted[err.at + 2] = fs[err.files[2]]

\* ---------------------------------------------------------------------- C4
\* What each validator recorded for boundary k, once it has looked at it.
OverlapPassed(k) == \E j \in LogAt("overlap", k) : log[j].outcome \in {"pass", "skip"}
GapPassed(k) == \E j \in LogAt("gap", k) : log[j].outcome \in {"warning", "skip"}
ValidationErrors == {"OverlapLengthMismatch", "OverlapIdentityMismatch", "GapTooLarge"}

\* C4: in combine_and_verify_booking_data the merge is entered only after the
\* overlap validator and the gap validator have both passed every boundary,
\* and a run a validator aborts, at whatever boundary, has performed no merge
\* step and returns no merged set.
C4_AllOrNothing ==
    entry = "combine"
        => /\ (pc \in {"merge_enter", "merge_loop", "done"} \/ LogBy("merge") # {}
                  \/ master_df # <<>> \/ result # <<>>)
                  => \A k \in AllBoundaries : OverlapPassed(k) /\ GapPassed(k)
           /\ (\E j \in 1..Len(log) : log[j].outcome \in ValidationErrors)
                  => /\ pc = "aborted"
                     /\ err.kind \in ValidationErrors
                     /\ LogBy("merge") = {}
                     /\ master_df = <<>>
                     /\ result = <<>>

\* A run of three files aborted by the gap validator at the last boundary,
\* after the first boundary passed both validators.
C4_Witness ==
    /\ entry = "combine"
    /\ pc = "aborted"
    /\ NumSets = 3
    /\ err.kind = "GapTooLarge"
    /\ err.at = 1
    /\ OverlapPassed(0) /\ GapPassed(0) /\ OverlapPassed(1)
    /\ Len(SetA(0)) > 0

\* ---------------------------------------------------------------------- C5
\* The overlap windows of boundary k, as sets of row positions.
WindowA(k) == {r \in 1..Len(SetA(k)) : SetA(k)[r].anfang >= ColMin(SetB(k))}
WindowB(k) == {r \in 1..Len(SetB(k)) : SetB(k)[r].anfang <= ColMax(SetA(k))}
WindowIdsA(k) == {SetA(k)[r].id : r \in WindowA(k)}
WindowIdsB(k) == {SetB(k)[r].id : r \in WindowB(k)}
IsOverlapping(k) ==
    /\ SetA(k) # <<>>
    /\ SetB(k) # <<>>
    /\ ColMax(SetA(k)) >= ColMin(SetB(k))

Reverse(s) == [j \in 1..Len(s) |-> s[Len(s) + 1 - j]]

\* C5: on an overlapping boundary the overlap validator fails with the
\* length mismatch when the two windows hold different numbers of rows,
\* otherwise with the identity mismatch when their sets of fahrtneu_id
\* differ, otherwise passes; the outcome is the same for the rows in reverse
\* order, and a failure aborts the run with that error at that boundary.
C5_OverlapOutcome ==
    \A j \in LogBy("overlap") :
        LET k == log[j].at
            expected ==
                IF Cardinality(WindowA(k)) # Cardinality(WindowB(k))
                THEN "OverlapLengthMismatch"
                ELSE IF WindowIdsA(k) # WindowIdsB(k)
                THEN "OverlapIdentityMismatch"
                ELSE "pass"
        IN  IsOverlapping(k)
                => /\ log[j].outcome = expected
                   /\ OverlapOutcome(Reverse(SetA(k)), SetB(k)) = expected
                   /\ OverlapOutcome(SetA(k), Reverse(SetB(k))) = expected
                   /\ expected # "pass"
                          => pc = "aborted" /\ err.kind = expected /\ err.at = k
                   /\ expected = "pass"
                          => ~ (pc = "aborted" /\ err.kind \in {"OverlapLengthMismatch",
                                    "OverlapIdentityMismatch"} /\ err.at = k)

\* The validator passed a boundary whose windows hold the same two bookings
\* in different row order.
C5_WitnessPass ==
    \E j \in LogBy("overlap") :
        LET k == log[j].at
        IN  /\ IsOverlapping(k)
            /\ log[j].outcome = "pass"
            /\ Cardinality(WindowIdsA(k)) = 2
            /\ Cardinality(WindowA(k)) = 2
            /\ SetA(k)[1].id # SetB(k)[1].id

\* ---------------------------------------------------------------------- C6
IsGapped(k) ==
    /\ SetA(k) # <<>>
    /\ SetB(k) # <<>>
    /\ ColMax(SetA(k)) < ColMin(SetB(k))
Gap(k) == ColMin(SetB(k)) - ColMax(SetA(k))
WarningsAt(k) == {j \in 1..Len(warnings) : warnings[j].at = k}
GapAborted(k) == pc = "aborted" /\ err.kind = "GapTooLarge" /\ err.at = k

\* C6: on a gapped boundary the gap validator fails with the gap-too-large
\* error iff the gap is strictly greater than threshold_hours; up to and
\* including the threshold it emits exactly one warning for the boundary and
\* goes on; on a boundary with last >= first it neither warns nor fails.
C6_GapTolerance ==
    \A j \in LogBy("gap") :
        LET k == log[j].at
        IN  /\ IsGapped(k)
                => /\ (log[j].outcome = "GapTooLarge") <=> (Gap(k) > threshold_hours)
                   /\ GapAborted(k) <=> (Gap(k) > threshold_hours)
                   /\ Gap(k) <= threshold_hours
                          => /\ log[j].outcome = "warning"
                             /\ Cardinality(WarningsAt(k)) = 1
                             /\ i > k \/ pc # "gap"
                   /\ Gap(k) > threshold_hours => WarningsAt(k) = {}
            /\ IsOverlapping(k)
                => /\ log[j].outcome = "skip"
                   /\ WarningsAt(k) = {}
                   /\ ~ GapAborted(k)

\* A run that finished after a warning for a gap of exactly threshold_hours.
C6_Witness ==
    /\ pc = "done"
    /\ \E j \in LogBy("gap") :
           /\ IsGapped(log[j].at)
           /\ Gap(log[j].at) = threshold_hours
           /\ log[j].outcome = "warning"

\* ---------------------------------------------------------------------- C7
OverlapRouted(k) == \E j \in LogAt("overlap", k) : log[j].outcome # "skip"
GapRouted(k) == \E j \in LogAt("gap", k) : log[j].outcome # "skip"

\* C7: for non-empty adjacent record sets the overlap validator takes a
\* boundary iff max(A.anfang) >= min(B.anfang) (equality included) and the gap
\* validator takes it iff not; no boundary is taken by both, and once both
\* passes are over every boundary was taken by exactly one.  With last = first
\* each overlap window holds at least one row.
C7_BoundaryRouting ==
    \A k \in AllBoundaries :
        (SetA(k) # <<>> /\ SetB(k) # <<>>)
            => /\ LogAt("overlap", k) # {} => (OverlapRouted(k) <=> IsOverlapping(k))
               /\ LogAt("gap", k) # {} => (GapRouted(k) <=> ~ IsOverlapping(k))
               /\ ~ (OverlapRouted(k) /\ GapRouted(k))
               /\ (entry = "combine" /\ pc \in {"merge_enter", "merge_loop", "done"})
                      => (OverlapRouted(k) \/ GapRouted(k))
               /\ ColMax(SetA(k)) = ColMin(SetB(k))
                      => /\ IsOverlapping(k)
                         /\ WindowA(k) # {}
                         /\ WindowB(k) # {}
                         /\ LogAt("overlap", k) # {}
                                => \E j \in LogAt("overlap", k) : log[j].outcome \notin {"skip"}

\* Both passes are over on three files: one boundary with last = first went
\* to the overlap validator, the other one is gapped.
C7_Witness ==
    /\ entry = "combine"
    /\ pc = "merge_enter"
    /\ NumSets = 3
    /\ \E k, l \in AllBoundaries :
           /\ SetA(k) # <<>> /\ SetB(k) # <<>>
           /\ ColMax(SetA(k)) = ColMin(SetB(k))
           /\ OverlapRouted(k)
           /\ IsGapped(l)
           /\ GapRouted(l)

\* ---------------------------------------------------------------------- C8
\* C8: merge_nonoverlapping_dfs fails with ValueError for an argument that is
\* no list, for a list with an element that is no DataFrame and for the
\* empty list; a one-element list is returned as its single record set.
C8_MergerInputRejection ==
    (entry = "merge" /\ pc \in {"done", "aborted"})
        => IF ~ argIsList \/ notDataFrame # {} \/ Len(df_list_sorted) = 0
           THEN pc = "aborted" /\ err.kind = "ValueError"
           ELSE /\ pc = "done"
                /\ Len(df_list_sorted) = 1 => result = df_list_sorted[1]

\* ---------------------------------------------------------------------- C9
OverlapErrors == {"OverlapLengthMismatch", "OverlapIdentityMismatch"}
RowsAfter(df, t) == {r \in 1..Len(df) : df[r].anfang > t}

\* Files F1, F2, F3 of distinct bookings: F2 repeats the bookings of F1's
\* trailing window, F3 starts at the instant F2 ends and holds a booking that
\* F2 does not.
ZeroGapScenario ==
    /\ entry = "combine"
    /\ NumSets = 3
    /\ \A k \in 1..3 : InputSets[k] # <<>>
    /\ UniqueIds /\ ConsistentAnfang
    /\ OverlapOutcome(SetA(0), SetB(0)) = "pass"
    /\ ColMin(SetB(1)) = ColMax(SetA(1))
    /\ ~ (IdSet(SetB(1)) \subseteq IdSet(SetA(1)))

\* F3's rows at its first instant are F2's rows at its last instant.
BoundaryRowsRepeated ==
    /\ Cardinality(WindowA(1)) = Cardinality(WindowB(1))
    /\ WindowIdsA(1) = WindowIdsB(1)

EachBookingOnce ==
    \A id \in UNION {IdSet(InputSets[k]) : k \in 1..NumSets} : Occurrences(result, id) = 1

\* C9 as claimed: in the zero-gap scenario the pipeline raises no fatal error
\* and returns every booking exactly once, |F1| + |F2 rows with anfang >
\* max(F1.anfang)| + |F3| rows in all.
C9_ZeroGapKeepsAllOfF3 ==
    (ZeroGapScenario /\ pc \in {"done", "aborted"})
        => /\ pc = "done"
           /\ err = NoError
           /\ EachBookingOnce
           /\ Len(result) = Len(SetA(0))
                              + Cardinality(RowsAfter(SetB(0), ColMax(SetA(0))))
                              + Len(SetB(1))

\* C9, amended: in the zero-gap scenario the boundary F2/F3 is an overlapping
\* one.  The pipeline finishes iff F3's rows at its first instant repeat F2's
\* rows at its last instant, and then returns every booking exactly once,
\* |F1| + |F2 rows with anfang > max(F1.anfang)| + |F3 rows with anfang >
\* max(F2.anfang)| rows in all, without any warning; otherwise it aborts with
\* an overlap error at that boundary and returns nothing.
C9_ZeroGapIsOverlap ==
    (ZeroGapScenario /\ pc \in {"done", "aborted"})
        => /\ (pc = "done") <=> BoundaryRowsRepeated
           /\ warnings = <<>>
           /\ pc = "done"
                  => /\ err = NoError
                     /\ EachBookingOnce
                     /\ Len(result) = Len(SetA(0))
                                        + Cardinality(RowsAfter(SetB(0), ColMax(SetA(0))))
                                        + Cardinality(RowsAfter(SetB(1), ColMax(SetA(1))))
           /\ pc = "aborted"
                  => /\ err.kind \in OverlapErrors
                     /\ err.at = 1
                     /\ result = <<>>

\* The scenario, finished: F2 adds a booking to F1's, F3 repeats F2's last
\* booking and adds one.
C9_Witness ==
    /\ ZeroGapScenario
    /\ pc = "done"
    /\ RowsAfter(SetB(0), ColMax(SetA(0))) # {}
    /\ RowsAfter(SetB(1), ColMax(SetA(1))) # {}
    /\ Len(result) < Len(SetA(0)) + Cardinality(RowsAfter(SetB(0), ColMax(SetA(0)))) + Len(SetB(1))

\* --------------------------------------------------------------------- C10
\* The boundaries whose overlap windows disagree.
Mismatching == {k \in AllBoundaries : OverlapOutcome(SetA(k), SetB(k)) \in OverlapErrors}
TooWide == {k \in AllBoundaries : GapOutcome(SetA(k), SetB(k)) = "GapTooLarge"}
Least(S) == CHOOSE k \in S : \A l \in S : k <= l

\* C10: combine_and_verify_booking_data runs the overlap validator over all
\* boundaries, in ascending order, before the gap validator looks at any.
\* When some boundary has mismatching overlap content the run aborts with the
\* overlap error of the first such boundary and no gap warning or gap error
\* has been emitted, whatever gaps lie before that boundary.
C10_OverlapPassFirst ==
    entry = "combine"
        => /\ \A a, b \in LogBy("overlap") : a < b => log[a].at < log[b].at
           /\ \A a, b \in LogBy("gap") : a < b => log[a].at < log[b].at
           /\ \A a \in LogBy("overlap"), b \in LogBy("gap") : a < b
           /\ LogBy("gap") # {} => \A k \in AllBoundaries : OverlapPassed(k)
           /\ (pc = "aborted" /\ err.kind \in OverlapErrors)
                  => LogBy("gap") = {} /\ warnings = <<>>
           /\ (pc \in {"done", "aborted"} /\ Mismatching # {})
                  => /\ pc = "aborted"
                     /\ err.at = Least(Mismatching)
                     /\ err.kind = OverlapOutcome(SetA(err.at), SetB(err.at))
                     /\ LogBy("gap") = {}
                     /\ warnings = <<>>

\* Aborted with the overlap error of the second boundary although the first
\* boundary has a gap above the tolerance.
C10_Witness ==
    /\ entry = "combine"
    /\ pc = "aborted"
    /\ err.kind \in OverlapErrors
    /\ err.at = 1
    /\ 0 \in TooWide
    /\ SetA(0) # <<>> /\ SetB(0) # <<>>

====
